---- MODULE Spec2Model ----
(***************************************************************************)
(* A model of app/src/lib/stores/accounts-store.ts: the AccountsStore that *)
(* keeps the signed-in accounts in memory, their metadata in a data store  *)
(* under the key "users" and their tokens in a secure store.               *)
(*                                                                         *)
(* Every async method is a task; a task runs from one await to the next in *)
(* one atomic step (JavaScript runs a continuation to completion), and the *)
(* steps of different tasks interleave freely.                             *)
(***************************************************************************)
EXTENDS Integers, Sequences, FiniteSets, Bags, TLC

\* ------------------------------------------------------------------ bounds
\* Number of things done to the store from outside, over all sessions: the
\* public calls and the restarts of the application.
MaxOps == 3
\* Number of public calls in flight at the same time.
MaxTasks == 2

\* ------------------------------------------------------------ value spaces
Logins == {"alice", "bob"}
Endpoints == {"e"}
\* The token the caller supplies: a real one, or none.
Tokens == {"", "t"}
\* What the secure store answers when it holds no entry (null in the code).
NoEntry == "<null>"
\* The display names the remote API can answer with.
RemoteNames == {"n1"}

\* The identifier the remote service assigns to a login; 0 is "not fetched".
RemoteId(login) == IF login = "alice" THEN 1 ELSE 2

NoAvatar == [ref |-> "", email |-> "", endpoint |-> ""]

\* new Account(login, endpoint, token, emails, avatarURL, id, name)
Account(login, endpoint, token, emails, avatarURL, id, name) ==
    [login |-> login, endpoint |-> endpoint, token |-> token, emails |-> emails,
     avatarURL |-> avatarURL, id |-> id, name |-> name]

\* Account.withToken(token): a copy with the token replaced.
withToken(account, token) ==
    Account(account.login, account.endpoint, token, account.emails,
            account.avatarURL, account.id, account.name)

\* getKeyForAccount(account): the secure-store key of an account.
getKeyForAccount(account) == <<account.login, account.endpoint>>

\* getAvatarWithEnterpriseFallback(avatar_url, email, endpoint)
getAvatarWithEnterpriseFallback(avatar_url, email, endpoint) ==
    [ref |-> avatar_url, email |-> email, endpoint |-> endpoint]

\* One IEmail of the remote API for a login.
EmailOf(login) ==
    [email |-> login, verified |-> TRUE, primary |-> TRUE, visibility |-> "public"]

\* The accounts a caller hands to addAccount: not yet fetched (id 0).
NewAccounts ==
    {Account(l, e, tk, <<>>, NoAvatar, 0, "") : l \in Logins, e \in Endpoints, tk \in Tokens}

\* The accounts a caller hands to removeAccount: a copy it got from getAll at
\* some time, so its id is 0 or the remote id. Only login, endpoint and id
\* are read.
RemoveArgs ==
    UNION {{Account(l, e, "", <<>>, NoAvatar, i, "") : i \in {0, RemoteId(l)}} :
           l \in Logins, e \in Endpoints}

NoAccount == Account("", "", "", <<>>, NoAvatar, 0, "")

\* ------------------------------------------------------------- remote API
\* What api.fetchAccount() and api.fetchEmails() do for one account: one of
\* them fails (network), or they answer a user and an email list (possibly
\* empty).
Outcomes(account) ==
    {[fetch |-> "fail", name |-> "", emails |-> <<>>]}
    \cup {[fetch |-> "ok", name |-> n, emails |-> es] :
            n \in RemoteNames, es \in {<<>>, <<EmailOf(account.login)>>}}

NoOutcome == [fetch |-> "none", name |-> "", emails |-> <<>>]

\* fatalError(msg): raises; the raised error is caught like any other.
fatalError == "fatal"

\* updatedAccount(account) under the remote outcome o: what it throws
\* ("none" when it returns) and the account it returns.
updatedAccountThrows(account, o) ==
    IF account.token = "" THEN fatalError
    ELSE IF o.fetch = "fail" THEN "network"
    ELSE IF Len(o.emails) = 0 THEN "TypeError"   \* emails[0].email of an empty list
    ELSE "none"

updatedAccount(account, o) ==
    Account(account.login, account.endpoint, account.token, o.emails,
            getAvatarWithEnterpriseFallback("av", o.emails[1].email, account.endpoint),
            RemoteId(account.login), o.name)

\* tryUpdateAccount(account): the updated account, or the old one when
\* updatedAccount threw anything.
tryUpdateAccount(account, o) ==
    IF updatedAccountThrows(account, o) = "none" THEN updatedAccount(account, o)
    ELSE account

\* ---------------------------------------------------------------- storage
\* The data store's value under "users": absent, or text. Text that is JSON
\* is modelled by the sequence of plain IAccount objects it denotes; text
\* that is not JSON (written by something else than save()) denotes nothing.
Absent == [present |-> FALSE, parses |-> TRUE, json |-> <<>>]
Malformed == [present |-> TRUE, parses |-> FALSE, json |-> <<>>]

\* JSON.stringify of a list of Accounts: the seven fields of each, in order.
JSONstringify(list) ==
    [present |-> TRUE, parses |-> TRUE,
     json |-> [i \in 1..Len(list) |->
                 [token |-> list[i].token, login |-> list[i].login,
                  endpoint |-> list[i].endpoint, emails |-> list[i].emails,
                  avatarURL |-> list[i].avatarURL, id |-> list[i].id,
                  name |-> list[i].name]]]

\* JSON.parse(raw): the list of IAccount objects.
JSONparse(raw) == raw.json

\* The data-store text save() writes for a list of accounts.
usersWithoutTokens(list) == [i \in 1..Len(list) |-> withToken(list[i], "")]

\* loadFromStore's accountWithoutToken for one parsed record.
accountWithoutToken(rec) ==
    Account(rec.login, rec.endpoint, "", rec.emails, rec.avatarURL, rec.id, rec.name)

\* The secure store is addressed by (key, username).
SecureKeys == {<<getKeyForAccount(a), a.login>> : a \in NewAccounts}

secureEntry(account) == <<getKeyForAccount(account), account.login>>

\* ------------------------------------------------------------------ state
VARIABLES
    accounts,      \* this.accounts
    dataStore,     \* dataStore item "users"
    secureStore,   \* secure store: (key, username) -> secret or NoEntry
    load,          \* the loadFromStore task behind loadingPromise
    tasks,         \* the public calls in flight: a bag of task records
    issued,        \* number of public calls and restarts so far
    emitted,       \* the notifications emitted by the last step, in order
    prev           \* what the previous session left in memory at its end

vars == <<accounts, dataStore, secureStore, load, tasks, issued, emitted, prev>>

\* The locals of a call: its name, where it is suspended, its argument,
\* addAccount's `updated` and what updatedAccount threw, refresh's mapped
\* list and the remote outcome of each of its accounts.
Task(op, pc, account) ==
    [op |-> op, pc |-> pc, account |-> account, updated |-> account,
     threw |-> "none", snap |-> <<>>, outs |-> <<>>]

One(t) == SetToBag({t})

InFlight == BagToSet(tasks)

\* ------------------------------------------------------------ constructor
\* loadFromStore up to its first await. It reads the data store and parses
\* it synchronously; with nothing stored it returns at once (no update
\* notification), with an empty list it installs it and emits the update.
\* When JSON.parse throws the async function rejects: loadingPromise is
\* rejected.
loadFromStoreStart(raw) ==
    IF raw.present /\ ~raw.parses
    THEN [pc |-> "rejected", rawAccounts |-> <<>>, i |-> 1, accountsWithTokens |-> <<>>,
          failed |-> {}]
    ELSE IF ~raw.present \/ Len(JSONparse(raw)) = 0
    THEN [pc |-> "done", rawAccounts |-> <<>>, i |-> 1, accountsWithTokens |-> <<>>,
          failed |-> {}]
    ELSE [pc |-> "getItem", rawAccounts |-> JSONparse(raw), i |-> 1,
          accountsWithTokens |-> <<>>, failed |-> {}]

\* The first start of the application: nothing is stored yet, or the text
\* under "users" is not JSON.
Init ==
    /\ accounts = <<>>
    /\ dataStore \in {Absent, Malformed}
    /\ secureStore = [k \in SecureKeys |-> NoEntry]
    /\ load = loadFromStoreStart(dataStore)
    /\ tasks = EmptyBag
    /\ issued = 0
    /\ emitted = <<>>
    /\ prev = [valid |-> FALSE, emptyStart |-> FALSE, accounts |-> <<>>]

\* save() without the blanking of the tokens.
saveKeepsTokens(list) == JSONstringify(list)

\* ------------------------------------------------------------------ save
\* save(): the text written under "users" for the list, tokens blanked.
save(list) == JSONstringify(usersWithoutTokens(list))

Quiet == <<>>
emitUpdate == <<[event |-> "did-update", error |-> ""]>>
\* emitError(e): the payload is the error, named here by the call that threw it.
emitError(e) == <<[event |-> "did-error", error |-> e]>>

loadingPromiseResolved == load.pc = "done"
loadingPromiseRejected == load.pc = "rejected"

\* ------------------------------------------------------------------ calls
\* A public call can be issued.
CanCall == issued < MaxOps /\ BagCardinality(tasks) < MaxTasks

\* getAll(), up to `await this.loadingPromise`.
GetAllCall ==
    /\ CanCall
    /\ tasks' = tasks (+) One(Task("getAll", "gate", NoAccount))
    /\ issued' = issued + 1
    /\ emitted' = Quiet
    /\ UNCHANGED <<accounts, dataStore, secureStore, load, prev>>

\* getAll() after the gate: return this.accounts.slice().
GetAllReturn(t) ==
    /\ t.op = "getAll" /\ t.pc = "gate"
    /\ loadingPromiseResolved
    /\ tasks' = tasks (-) One(t)
    /\ emitted' = Quiet
    /\ UNCHANGED <<accounts, dataStore, secureStore, load, issued, prev>>

\* `await this.loadingPromise` of getAll, addAccount and removeAccount when
\* the load was rejected: the await throws and the call rejects there.
GateRejects(t) ==
    /\ t.pc = "gate"
    /\ loadingPromiseRejected
    /\ tasks' = tasks (-) One(t)
    /\ emitted' = Quiet
    /\ UNCHANGED <<accounts, dataStore, secureStore, load, issued, prev>>

\* addAccount(account), up to `await this.loadingPromise`.
AddCall(account) ==
    /\ CanCall
    /\ tasks' = tasks (+) One(Task("add", "gate", account))
    /\ issued' = issued + 1
    /\ emitted' = Quiet
    /\ UNCHANGED <<accounts, dataStore, secureStore, load, prev>>

\* addAccount after the gate: `let updated = account`, updatedAccount(account)
\* is started and awaited.
AddGate(t) ==
    /\ t.op = "add" /\ t.pc = "gate"
    /\ loadingPromiseResolved
    /\ tasks' = (tasks (-) One(t)) (+) One([t EXCEPT !.pc = "fetching"])
    /\ emitted' = Quiet
    /\ UNCHANGED <<accounts, dataStore, secureStore, load, issued, prev>>

\* The remote outcomes an account's updatedAccount can meet: none when it
\* throws before fetching.
FetchOutcomes(account) ==
    IF account.token = "" THEN {NoOutcome} ELSE Outcomes(account)

\* addAccount giving up when updatedAccount throws.
AddFetchedFailsOnThrow(t, o) ==
    /\ t.op = "add" /\ t.pc = "fetching"
    /\ IF updatedAccountThrows(t.account, o) = "none"
       THEN /\ tasks' = (tasks (-) One(t)) (+)
                        One([t EXCEPT !.pc = "storing",
                                      !.updated = updatedAccount(t.account, o)])
            /\ emitted' = Quiet
       ELSE /\ tasks' = tasks (-) One(t)
            /\ emitted' = emitError("fetch")
    /\ UNCHANGED <<accounts, dataStore, secureStore, load, issued, prev>>

\* addAccount: updatedAccount settled. A throw is logged and `updated` stays
\* the caller's account; then secureStore.setItem is started and awaited.
AddFetched(t, o) ==
    /\ t.op = "add" /\ t.pc = "fetching"
    /\ tasks' = (tasks (-) One(t)) (+)
                One([t EXCEPT !.pc = "storing",
                              !.threw = updatedAccountThrows(t.account, o),
                              !.updated = IF updatedAccountThrows(t.account, o) = "none"
                                          THEN updatedAccount(t.account, o)
                                          ELSE t.account])
    /\ emitted' = Quiet
    /\ UNCHANGED <<accounts, dataStore, secureStore, load, issued, prev>>

\* addAccount going on without the token having been written.
AddSetItemSkipsWrite(t, ok) ==
    /\ t.op = "add" /\ t.pc = "storing"
    /\ secureStore' = secureStore
    /\ tasks' = (tasks (-) One(t)) (+)
                One([t EXCEPT !.pc = IF ok THEN "stored" ELSE "storeFailed"])
    /\ emitted' = Quiet
    /\ UNCHANGED <<accounts, dataStore, load, issued, prev>>

\* secureStore.setItem(getKeyForAccount(updated), updated.login, updated.token)
\* takes effect, or fails.
AddSetItem(t, ok) ==
    /\ t.op = "add" /\ t.pc = "storing"
    /\ IF ok
       THEN /\ secureStore' = [secureStore EXCEPT
                                 ![<<getKeyForAccount(t.updated), t.updated.login>>] =
                                     t.updated.token]
            /\ tasks' = (tasks (-) One(t)) (+) One([t EXCEPT !.pc = "stored"])
       ELSE /\ secureStore' = secureStore
            /\ tasks' = (tasks (-) One(t)) (+) One([t EXCEPT !.pc = "storeFailed"])
    /\ emitted' = Quiet
    /\ UNCHANGED <<accounts, dataStore, load, issued, prev>>

\* The commit putting the account in front of the list.
AddCommitPrepends(t) ==
    /\ t.op = "add" /\ t.pc = "stored"
    /\ accounts' = <<t.updated>> \o accounts
    /\ dataStore' = save(accounts')
    /\ emitted' = emitUpdate
    /\ tasks' = tasks (-) One(t)
    /\ UNCHANGED <<secureStore, load, issued, prev>>

\* addAccount past the try: this.accounts = this.accounts.concat(updated); save().
AddCommit(t) ==
    /\ t.op = "add" /\ t.pc = "stored"
    /\ accounts' = Append(accounts, t.updated)
    /\ dataStore' = save(accounts')
    /\ emitted' = emitUpdate
    /\ tasks' = tasks (-) One(t)
    /\ UNCHANGED <<secureStore, load, issued, prev>>

\* The catch without its `return`: the account is added all the same.
AddCatchFallsThrough(t) ==
    /\ t.op = "add" /\ t.pc = "storeFailed"
    /\ accounts' = Append(accounts, t.updated)
    /\ dataStore' = save(accounts')
    /\ emitted' = emitError("setItem") \o emitUpdate
    /\ tasks' = tasks (-) One(t)
    /\ UNCHANGED <<secureStore, load, issued, prev>>

\* addAccount's catch of a failed setItem: emitError(e); return.
AddCatch(t) ==
    /\ t.op = "add" /\ t.pc = "storeFailed"
    /\ emitted' = emitError("setItem")
    /\ tasks' = tasks (-) One(t)
    /\ UNCHANGED <<accounts, dataStore, secureStore, load, issued, prev>>

\* ----------------------------------------------------------- removeAccount
\* removeAccount(account), up to `await this.loadingPromise`.
RemoveCall(account) ==
    /\ CanCall
    /\ tasks' = tasks (+) One(Task("remove", "gate", account))
    /\ issued' = issued + 1
    /\ emitted' = Quiet
    /\ UNCHANGED <<accounts, dataStore, secureStore, load, prev>>

\* removeAccount after the gate: secureStore.deleteItem is started and awaited.
RemoveGate(t) ==
    /\ t.op = "remove" /\ t.pc = "gate"
    /\ loadingPromiseResolved
    /\ tasks' = (tasks (-) One(t)) (+) One([t EXCEPT !.pc = "deleting"])
    /\ emitted' = Quiet
    /\ UNCHANGED <<accounts, dataStore, secureStore, load, issued, prev>>

\* secureStore.deleteItem(getKeyForAccount(account), account.login) takes
\* effect, or fails.
RemoveDeleteItem(t, ok) ==
    /\ t.op = "remove" /\ t.pc = "deleting"
    /\ IF ok
       THEN /\ secureStore' = [secureStore EXCEPT
                                 ![<<getKeyForAccount(t.account), t.account.login>>] = NoEntry]
            /\ tasks' = (tasks (-) One(t)) (+) One([t EXCEPT !.pc = "deleted"])
       ELSE /\ secureStore' = secureStore
            /\ tasks' = (tasks (-) One(t)) (+) One([t EXCEPT !.pc = "deleteFailed"])
    /\ emitted' = Quiet
    /\ UNCHANGED <<accounts, dataStore, load, issued, prev>>

\* this.accounts.filter(a => a.id !== account.id)
filterById(list, account) == SelectSeq(list, LAMBDA a : a.id # account.id)

\* removeAccount past the try: filter, save().
RemoveCommit(t) ==
    /\ t.op = "remove" /\ t.pc = "deleted"
    /\ accounts' = filterById(accounts, t.account)
    /\ dataStore' = save(accounts')
    /\ emitted' = emitUpdate
    /\ tasks' = tasks (-) One(t)
    /\ UNCHANGED <<secureStore, load, issued, prev>>

\* The catch without its `return`: the account is dropped all the same.
RemoveCatchFallsThrough(t) ==
    /\ t.op = "remove" /\ t.pc = "deleteFailed"
    /\ accounts' = filterById(accounts, t.account)
    /\ dataStore' = save(accounts')
    /\ emitted' = emitError("deleteItem") \o emitUpdate
    /\ tasks' = tasks (-) One(t)
    /\ UNCHANGED <<secureStore, load, issued, prev>>

\* removeAccount's catch of a failed deleteItem: emitError(e); return.
RemoveCatch(t) ==
    /\ t.op = "remove" /\ t.pc = "deleteFailed"
    /\ emitted' = emitError("deleteItem")
    /\ tasks' = tasks (-) One(t)
    /\ UNCHANGED <<accounts, dataStore, secureStore, load, issued, prev>>

\* ----------------------------------------------------------------- refresh
\* refresh() up to its await: it does not wait for loadingPromise; it maps
\* this.accounts as it is at the call and starts tryUpdateAccount on each.
RefreshCall ==
    /\ CanCall
    /\ tasks' = tasks (+) One([Task("refresh", "fetching", NoAccount) EXCEPT !.snap = accounts])
    /\ issued' = issued + 1
    /\ emitted' = Quiet
    /\ UNCHANGED <<accounts, dataStore, secureStore, load, prev>>

\* The remote outcomes of the accounts of a list, one each.
OutcomeVectors(list) ==
    {v \in [1..Len(list) -> UNION {FetchOutcomes(list[i]) : i \in 1..Len(list)}] :
        \A i \in 1..Len(list) : v[i] \in FetchOutcomes(list[i])}

\* Every tryUpdateAccount of the refresh has settled (Promise.all).
RefreshSettled(t, outs) ==
    /\ t.op = "refresh" /\ t.pc = "fetching"
    /\ tasks' = (tasks (-) One(t)) (+) One([t EXCEPT !.pc = "settled", !.outs = outs])
    /\ emitted' = Quiet
    /\ UNCHANGED <<accounts, dataStore, secureStore, load, issued, prev>>

\* The list Promise.all answers: each account updated, or as it was.
refreshed(snap, outs) == [i \in 1..Len(snap) |-> tryUpdateAccount(snap[i], outs[i])]

\* refresh() past its await: this.accounts = the results; save(); emitUpdate().
RefreshCommit(t) ==
    /\ t.op = "refresh" /\ t.pc = "settled"
    /\ accounts' = refreshed(t.snap, t.outs)
    /\ dataStore' = save(accounts')
    /\ emitted' = emitUpdate \o emitUpdate
    /\ tasks' = tasks (-) One(t)
    /\ UNCHANGED <<secureStore, load, issued, prev>>

\* ----------------------------------------------------------- loadFromStore
\* loadFromStore leaving the token out.
tokenDropped(token) == ""

\* The token loadFromStore attaches: `token || ''`.
tokenOrEmpty(token) == IF token = NoEntry THEN "" ELSE token

\* loadFromStore with the try around the whole loop: the first failing
\* lookup ends the load with what was read so far.
LoadGetItemStopsOnError(ok) ==
    /\ load.pc = "getItem"
    /\ LET rec == load.rawAccounts[load.i]
           without == accountWithoutToken(rec)
           token == secureStore[<<getKeyForAccount(without), rec.login>>]
           pushed == IF ok THEN Append(load.accountsWithTokens,
                                       withToken(without, tokenOrEmpty(token)))
                     ELSE load.accountsWithTokens
           last == ~ok \/ load.i = Len(load.rawAccounts)
       IN /\ load' = [load EXCEPT !.pc = IF last THEN "done" ELSE "getItem",
                                  !.i = load.i + 1,
                                  !.accountsWithTokens = pushed,
                                  !.failed = IF ok THEN load.failed ELSE load.failed \cup {load.i}]
          /\ accounts' = IF last THEN pushed ELSE accounts
          /\ emitted' = (IF ok THEN Quiet ELSE emitError("getItem")) \o
                        (IF last THEN emitUpdate ELSE Quiet)
    /\ UNCHANGED <<dataStore, secureStore, tasks, issued, prev>>

\* One turn of loadFromStore's loop: secureStore.getItem(key, account.login)
\* answers or fails; after the last record the list is installed and the
\* update emitted.
LoadGetItem(ok) ==
    /\ load.pc = "getItem"
    /\ LET rec == load.rawAccounts[load.i]
           without == accountWithoutToken(rec)
           key == getKeyForAccount(without)
           token == secureStore[<<key, rec.login>>]
           pushed == IF ok THEN Append(load.accountsWithTokens,
                                       withToken(without, tokenOrEmpty(token)))
                     ELSE load.accountsWithTokens
           last == load.i = Len(load.rawAccounts)
       IN /\ load' = [load EXCEPT !.pc = IF last THEN "done" ELSE "getItem",
                                  !.i = load.i + 1,
                                  !.accountsWithTokens = pushed,
                                  !.failed = IF ok THEN load.failed ELSE load.failed \cup {load.i}]
          /\ accounts' = IF last THEN pushed ELSE accounts
          /\ emitted' = (IF ok THEN Quiet ELSE emitError("getItem")) \o
                        (IF last THEN emitUpdate ELSE Quiet)
    /\ UNCHANGED <<dataStore, secureStore, tasks, issued, prev>>

\* ----------------------------------------------------------------- restart
Quiescent == (loadingPromiseResolved \/ loadingPromiseRejected) /\ tasks = EmptyBag

\* The application is closed with nothing in flight and started again: a new
\* AccountsStore is constructed over the same data store and secure store.
Restart ==
    /\ issued < MaxOps
    /\ Quiescent
    /\ issued' = issued + 1
    /\ prev' = [valid |-> TRUE, emptyStart |-> load.rawAccounts = <<>>, accounts |-> accounts]
    /\ accounts' = <<>>
    /\ load' = loadFromStoreStart(dataStore)
    /\ tasks' = EmptyBag
    /\ emitted' = IF dataStore.present /\ dataStore.parses /\ Len(JSONparse(dataStore)) = 0
                   THEN emitUpdate ELSE Quiet
    /\ UNCHANGED <<dataStore, secureStore>>

\* ------------------------------------------------------------------- spec
Next ==
    \/ GetAllCall
    \/ \E t \in InFlight : GetAllReturn(t)
    \/ \E t \in InFlight : GateRejects(t)
    \/ \E a \in NewAccounts : AddCall(a)
    \/ \E t \in InFlight : AddGate(t)
    \/ \E t \in InFlight : \E o \in FetchOutcomes(t.account) : AddFetched(t, o)
    \/ \E t \in InFlight, ok \in BOOLEAN : AddSetItem(t, ok)
    \/ \E t \in InFlight : AddCommit(t)
    \/ \E t \in InFlight : AddCatch(t)
    \/ \E a \in RemoveArgs : RemoveCall(a)
    \/ \E t \in InFlight : RemoveGate(t)
    \/ \E t \in InFlight, ok \in BOOLEAN : RemoveDeleteItem(t, ok)
    \/ \E t \in InFlight : RemoveCommit(t)
    \/ \E t \in InFlight : RemoveCatch(t)
    \/ RefreshCall
    \/ \E t \in InFlight : \E outs \in OutcomeVectors(t.snap) : RefreshSettled(t, outs)
    \/ \E t \in InFlight : RefreshCommit(t)
    \/ \E ok \in BOOLEAN : LoadGetItem(ok)
    \/ Restart

Spec == Init /\ [][Next]_vars

\* ================================================================= claims
\* The call t takes a step: it moves on or returns.
Moves(t) == t \in InFlight /\ CopiesIn(t, tasks') < CopiesIn(t, tasks)
\* The call t returns.
Returns(t) == t \in InFlight /\ tasks' = tasks (-) One(t)
\* The call t moves on as t2.
StepsTo(t, t2) == t \in InFlight /\ tasks' = (tasks (-) One(t)) (+) One(t2)

\* The step is a restart; the step is the one that ends the load.
RestartStep == issued' # issued /\ tasks = EmptyBag /\ tasks' = EmptyBag
LoadCompletes == load.pc = "getItem" /\ load'.pc = "done"

\* The data-store text of a list with every token blank, said without save().
BlobOf(list) ==
    [present |-> TRUE, parses |-> TRUE, json |-> [i \in 1..Len(list) |-> [list[i] EXCEPT !.token = ""]]]

\* The secure-store entry of (login, endpoint).
EntryOf(a) == <<<<a.login, a.endpoint>>, a.login>>

CountErrors(events) == Cardinality({i \in 1..Len(events) : events[i].event = "did-error"})
CountUpdates(events) == Cardinality({i \in 1..Len(events) : events[i].event = "did-update"})

\* --------------------------------------------------------------------- C1
\* C1: while the initial load is still suspended on a secure-store lookup,
\* every public call issued so far is still waiting at the load gate (none
\* has read this.accounts or is about to commit a list made from it), and
\* the data store still holds the text the load read.
C1_NothingPassesTheGate ==
    load.pc = "getItem" =>
        /\ \A t \in InFlight : t.pc = "gate"
        /\ dataStore = [present |-> TRUE, parses |-> TRUE, json |-> load.rawAccounts]

\* --------------------------------------------------------------------- C2
\* C2: in every reachable state every record of the text stored under
\* "users" has the empty string as its token.
C2_NoTokenPersisted ==
    \A i \in 1..Len(dataStore.json) : dataStore.json[i].token = ""

\* A list with a real token in memory has been saved.
C2_Witness ==
    /\ dataStore.present
    /\ Len(dataStore.json) = Len(accounts)
    /\ \E i \in 1..Len(accounts) :
          accounts[i].token = "t" /\ dataStore.json[i].login = accounts[i].login

\* --------------------------------------------------------------------- C3
\* C3: no step of an addAccount call before its commit touches this.accounts
\* or the data store, and a call whose secure-store write failed returns
\* from there with exactly one error notification (the setItem error), no
\* update notification, and this.accounts and the data store as they were:
\* an account not listed before is not listed after.
C3_AddAbortsOnCredentialFailure ==
    [][\A t \in InFlight :
         /\ (t.op = "add" /\ t.pc # "stored" /\ Moves(t)) =>
                accounts' = accounts /\ dataStore' = dataStore
         /\ (t.op = "add" /\ t.pc = "storing" /\ Moves(t)) =>
                \/ StepsTo(t, [t EXCEPT !.pc = "stored"])
                \/ StepsTo(t, [t EXCEPT !.pc = "storeFailed"]) /\ secureStore' = secureStore
         /\ (t.op = "add" /\ t.pc = "storeFailed" /\ Moves(t)) =>
                /\ Returns(t)
                /\ emitted' = emitError("setItem")
                /\ accounts' = accounts /\ dataStore' = dataStore
                /\ secureStore' = secureStore
                /\ \A i \in 1..Len(accounts') :
                      EntryOf(accounts'[i]) = EntryOf(t.account) =>
                          \E j \in 1..Len(accounts) : accounts[j] = accounts'[i]
      ]_vars

\* An addAccount has just given up on a failed secure-store write, and
\* nothing is listed or stored.
C3_Witness ==
    /\ emitted = emitError("setItem")
    /\ tasks = EmptyBag
    /\ accounts = <<>>
    /\ dataStore = Absent

\* --------------------------------------------------------------------- C4
\* C4: no step of a removeAccount call before its commit touches
\* this.accounts or the data store, and a call whose secure-store delete
\* failed returns from there with exactly one error notification (the
\* deleteItem error), no update notification, and this.accounts, the data
\* store and the secure store as they were.
C4_RemoveAbortsOnCredentialFailure ==
    [][\A t \in InFlight :
         /\ (t.op = "remove" /\ t.pc # "deleted" /\ Moves(t)) =>
                accounts' = accounts /\ dataStore' = dataStore
         /\ (t.op = "remove" /\ t.pc = "deleting" /\ Moves(t)) =>
                \/ StepsTo(t, [t EXCEPT !.pc = "deleted"])
                \/ StepsTo(t, [t EXCEPT !.pc = "deleteFailed"]) /\ secureStore' = secureStore
         /\ (t.op = "remove" /\ t.pc = "deleteFailed" /\ Moves(t)) =>
                /\ Returns(t)
                /\ emitted' = emitError("deleteItem")
                /\ accounts' = accounts /\ dataStore' = dataStore
                /\ secureStore' = secureStore
      ]_vars

\* A removeAccount has just given up on a failed secure-store delete, the
\* only call since the one account was added; the account is still listed,
\* stored and its token still in the secure store.
C4_Witness ==
    /\ emitted = emitError("deleteItem")
    /\ tasks = EmptyBag
    /\ issued = 2
    /\ Len(accounts) = 1
    /\ dataStore = BlobOf(accounts)
    /\ secureStore[EntryOf(accounts[1])] = accounts[1].token

\* --------------------------------------------------------------------- C5
\* The account the claim expects after a fetch that answered: login,
\* endpoint and token kept, the fetched id, name and emails, and the avatar
\* derived with the first email, or the empty string when there is none.
C5_Fresh(a, o) ==
    [a EXCEPT !.id = RemoteId(a.login), !.name = o.name, !.emails = o.emails,
              !.avatarURL = [ref |-> "av",
                             email |-> IF Len(o.emails) = 0 THEN "" ELSE o.emails[1].email,
                             endpoint |-> a.endpoint]]

\* C5: when a refresh() commits and this.accounts is still the list it
\* mapped (nothing else changed it meanwhile), the list keeps its length and
\* order; every account whose fetch failed is as it was, and every account
\* whose fetch answered carries the fetched id, name, emails and the derived
\* avatar, with login, endpoint and token kept, whatever happened to the
\* other accounts.
C5_RefreshPerAccount ==
    [][\A t \in InFlight :
         (t.op = "refresh" /\ t.pc = "settled" /\ Moves(t) /\ accounts = t.snap) =>
            /\ Len(accounts') = Len(accounts)
            /\ \A i \in 1..Len(accounts) :
                 /\ t.outs[i].fetch = "fail" => accounts'[i] = accounts[i]
                 /\ t.outs[i].fetch = "ok" => accounts'[i] = C5_Fresh(accounts[i], t.outs[i])
      ]_vars

\* --------------------------------------------------------------------- C6
\* C6: the step in which addAccount(a)'s secure-store write succeeds leaves
\* a's token under the key of (a.login, a.endpoint) with the username
\* a.login, whatever the fetch before it did, and touches no other entry,
\* this.accounts or the data store; an addAccount changes this.accounts or
\* the data store only in the step after that one, appending an account with
\* a's login, endpoint and token; and an entry of the secure store changes
\* only in the setItem or deleteItem step of a call for that very entry, so
\* the token is still there when the call returns unless another call for
\* the same (login, endpoint) wrote or deleted it meanwhile.
C6_TokenStoredBeforeCommit ==
    [][/\ \A k \in SecureKeys :
            secureStore'[k] # secureStore[k] =>
                \E u \in InFlight :
                    Moves(u) /\ EntryOf(u.account) = k /\ u.pc \in {"storing", "deleting"}
       /\ \A t \in InFlight :
            /\ (t.op = "add" /\ t.pc = "storing" /\ StepsTo(t, [t EXCEPT !.pc = "stored"])) =>
                   /\ secureStore' = [secureStore EXCEPT ![EntryOf(t.account)] = t.account.token]
                   /\ accounts' = accounts /\ dataStore' = dataStore
            /\ (t.op = "add" /\ Moves(t) /\ (accounts' # accounts \/ dataStore' # dataStore)) =>
                   t.pc = "stored"
            /\ (t.op = "add" /\ Moves(t) /\ t.pc # "storing") =>
                   \A t2 \in BagToSet(tasks') :
                       t2.pc = "stored" => CopiesIn(t2, tasks') <= CopiesIn(t2, tasks)
            /\ (t.op = "add" /\ t.pc = "stored" /\ Moves(t)) =>
                   /\ Returns(t)
                   /\ Len(accounts') = Len(accounts) + 1
                   /\ EntryOf(accounts'[Len(accounts')]) = EntryOf(t.account)
                   /\ accounts'[Len(accounts')].token = t.account.token
      ]_vars

\* The only call so far, an addAccount whose fetch failed, has returned: the
\* account is listed and its token is in the secure store.
C6_Witness ==
    /\ tasks = EmptyBag
    /\ issued = 1
    /\ Len(accounts) = 1
    /\ accounts[1].token = "t" /\ accounts[1].id = 0
    /\ secureStore[EntryOf(accounts[1])] = "t"

\* --------------------------------------------------------------------- C7
DistinctKeys(list) ==
    \A i, j \in 1..Len(list) : i # j => EntryOf(list[i]) # EntryOf(list[j])

\* C7: when a session that started with nothing stored ends with a list of
\* accounts with pairwise distinct (login, endpoint), each one's token in the
\* secure store, and the application is started again, the load of the new
\* session, if no lookup of it fails, installs exactly that list: as many
\* accounts, in the same order, the same metadata, the tokens restored.
C7_RoundTrip ==
    [][(/\ RestartStep \/ LoadCompletes
        /\ load'.pc = "done"
        /\ load'.failed = {}
        /\ prev'.valid /\ prev'.emptyStart
        /\ DistinctKeys(prev'.accounts)
        /\ \A i \in 1..Len(prev'.accounts) :
              secureStore'[EntryOf(prev'.accounts[i])] = prev'.accounts[i].token)
          => accounts' = prev'.accounts
      ]_vars

\* Two accounts, one of them with a real token and fetched metadata, are
\* back in memory after the restart.
C7_Witness ==
    /\ loadingPromiseResolved
    /\ prev.valid /\ prev.emptyStart
    /\ Len(prev.accounts) = 2
    /\ DistinctKeys(prev.accounts)
    /\ load.failed = {}
    /\ Len(load.rawAccounts) = 2
    /\ accounts = prev.accounts
    /\ \E i \in 1..2 : accounts[i].token = "t" /\ accounts[i].id # 0

\* --------------------------------------------------------------------- C8
\* The list a load has read after n records: the records whose lookup did
\* not fail, in stored order, each with the secure store's token, or the
\* empty string when the store has none.
RECURSIVE LoadedOf(_, _, _, _)
LoadedOf(raw, failed, n, store) ==
    IF n = 0 THEN <<>>
    ELSE LET rest == LoadedOf(raw, failed, n - 1, store)
             found == store[EntryOf(raw[n])]
         IN IF n \in failed THEN rest
            ELSE Append(rest, [raw[n] EXCEPT !.token = IF found = NoEntry THEN "" ELSE found])

\* C8: each turn of the load handles the next stored record: a failed lookup
\* leaves that record out and emits exactly one error notification, a lookup
\* that answers (a token or none) keeps the record and emits no error; the
\* load goes on to the next record either way, and after the last it
\* resolves the gate and installs exactly the records whose lookup did not
\* fail, in stored order, a record without a token with the empty token.
C8_LoadSkipsOnlyFailedLookups ==
    [][load.pc = "getItem" /\ load' # load =>
         /\ load'.rawAccounts = load.rawAccounts
         /\ load'.i = load.i + 1
         /\ load'.failed \in {load.failed, load.failed \cup {load.i}}
         /\ CountErrors(emitted') = IF load.i \in load'.failed THEN 1 ELSE 0
         /\ load'.accountsWithTokens =
               LoadedOf(load.rawAccounts, load'.failed, load.i, secureStore)
         /\ load'.pc = IF load.i = Len(load.rawAccounts) THEN "done" ELSE "getItem"
         /\ load'.pc = "done" =>
               /\ accounts' = LoadedOf(load.rawAccounts, load'.failed,
                                       Len(load.rawAccounts), secureStore)
               /\ CountUpdates(emitted') = 1
      ]_vars

\* A load of two records has ended: the lookup of the first failed, the
\* second is in memory.
C8_Witness ==
    /\ loadingPromiseResolved
    /\ Len(load.rawAccounts) = 2
    /\ load.failed = {1}
    /\ Len(accounts) = 1
    /\ accounts[1].login = load.rawAccounts[2].login
    /\ emitted = emitUpdate

\* --------------------------------------------------------------------- C9
\* C9: an addAccount whose fetch failed goes on to the secure-store write
\* with the caller's account unchanged and no notification, and when the
\* write succeeded it returns having appended that account, stored the
\* blanked list and emitted one update notification and no error; no step
\* of a refresh emits an error notification, and a refresh whose fetches
\* have settled returns with the list stored and update notifications,
\* whichever of its fetches failed.
C9_NetworkFailureAbsorbed ==
    [][\A t \in InFlight :
         /\ (t.op = "add" /\ t.pc = "fetching" /\ Moves(t)) =>
                /\ emitted' = Quiet
                /\ \E t2 \in BagToSet(tasks') :
                      /\ StepsTo(t, t2)
                      /\ t2.pc = "storing" /\ t2.account = t.account
                      /\ t2.threw = "network" => t2.updated = t.account
         /\ (t.op = "add" /\ t.pc = "stored" /\ t.threw = "network" /\ Moves(t)) =>
                /\ Returns(t)
                /\ accounts' = Append(accounts, t.account)
                /\ dataStore' = BlobOf(accounts')
                /\ emitted' = emitUpdate
         /\ (t.op = "refresh" /\ Moves(t)) => CountErrors(emitted') = 0
         /\ (t.op = "refresh" /\ t.pc = "settled" /\ Moves(t)) =>
                /\ Returns(t)
                /\ Len(accounts') = Len(t.snap)
                /\ dataStore' = BlobOf(accounts')
                /\ CountUpdates(emitted') >= 1
      ]_vars

\* The only call so far, an addAccount of a tokened account whose fetch
\* failed, has returned: the caller's account is listed and stored, and the
\* last notification is the update.
C9_Witness ==
    /\ tasks = EmptyBag
    /\ issued = 1
    /\ Len(accounts) = 1
    /\ accounts[1] \in NewAccounts /\ accounts[1].token = "t"
    /\ dataStore = BlobOf(accounts)
    /\ emitted = emitUpdate

\* -------------------------------------------------------------------- C10
\* C10: a call that ran updatedAccount on an account without a token does not
\* go on as after a network failure: no addAccount is past its fetch with
\* the fatal error caught, and no refresh has settled normally with a
\* tokenless account in the list it mapped.
C10_TokenlessIsFatal ==
    \A t \in InFlight :
        /\ (t.op = "add" /\ t.account.token = "") => t.pc \in {"gate", "fetching"}
        /\ (t.op = "refresh" /\ t.pc = "settled") =>
               \A i \in 1..Len(t.snap) : t.snap[i].token # ""

\* -------------------------------------------------------------------- C11
\* C11: whenever the load has completed and no call is in flight, the text
\* stored under "users" is the in-memory list with every token blank, in the
\* same order (nothing stored yet counts as the empty list); this includes
\* the state after a load that left a record out.
C11_BlobIsTheListWhenQuiet ==
    (loadingPromiseResolved /\ tasks = EmptyBag) =>
        \/ dataStore = BlobOf(accounts)
        \/ ~dataStore.present /\ accounts = <<>>

\* -------------------------------------------------------------------- C12
\* C12: in every reachable state no two entries of this.accounts have the
\* same id.
C12_NoDuplicateId ==
    \A i, j \in 1..Len(accounts) : i # j => accounts[i].id # accounts[j].id

\* -------------------------------------------------------------------- C13
\* C13: a fetch that answers with a profile and an empty email list raises
\* nothing: no addAccount has caught a TypeError from updatedAccount, and the
\* list a refresh() is about to commit holds, for every account with a token
\* whose fetch answered so, the updated account (fetched id and name, empty
\* emails, avatar derived with the empty string), not the original.
C13_EmptyEmailListTolerated ==
    \A t \in InFlight :
        /\ t.op = "add" => t.threw # "TypeError"
        /\ (t.op = "refresh" /\ t.pc = "settled") =>
              \A i \in 1..Len(t.snap) :
                  (t.snap[i].token # "" /\ t.outs[i].fetch = "ok" /\ t.outs[i].emails = <<>>) =>
                      refreshed(t.snap, t.outs)[i] = C5_Fresh(t.snap[i], t.outs[i])

\* -------------------------------------------------------------------- C14
\* C14: the step that completes a load (its last lookup, or the constructor
\* itself when nothing or an empty list is stored) emits at least one update
\* notification, and so does the committing step of every addAccount,
\* removeAccount and refresh.
C14_CompletionEmitsUpdate ==
    [][/\ (LoadCompletes \/ (RestartStep /\ load'.pc = "done")) =>
              CountUpdates(emitted') >= 1
       /\ \A t \in InFlight :
              (t.pc \in {"stored", "deleted", "settled"} /\ Returns(t)) =>
                  CountUpdates(emitted') >= 1
      ]_vars

\* -------------------------------------------------------------------- C15
\* C15: while the load is rejected (the stored text did not parse) no step
\* changes this.accounts, the data store or the secure store, so the
\* unparsable text is never overwritten, and every call that leaves the load
\* gate returns there.
C15_RejectedLoadFreezesTheStore ==
    [][loadingPromiseRejected =>
          /\ UNCHANGED <<accounts, dataStore, secureStore>>
          /\ \A t \in InFlight : (t.pc = "gate" /\ Moves(t)) => Returns(t)
      ]_vars

\* -------------------------------------------------------------------- C16
\* The list (or the parsed text) has an entry for (login, endpoint) e.
Holds(list, e) == \E i \in 1..Len(list) : EntryOf(list[i]) = e

\* C16: an account that is listed, or stored in the text under "users", is
\* still there after every step that ends with the load completed and no
\* call in flight, unless the step is the commit of a removeAccount for it
\* (or, for the in-memory list, a restart); in particular the commit of a
\* refresh() that was suspended while an addAccount committed keeps the
\* added account.
C16_NoLostAdd ==
    [][(loadingPromiseResolved' /\ tasks' = EmptyBag /\ ~RestartStep) =>
          \A e \in SecureKeys :
              \/ /\ Holds(accounts, e) => Holds(accounts', e)
                 /\ Holds(dataStore.json, e) => Holds(dataStore'.json, e)
              \/ \E t \in InFlight :
                    /\ t.op = "remove" /\ t.pc = "deleted" /\ Returns(t)
                    /\ EntryOf(t.account) = e
      ]_vars

\* -------------------------------------------------------------------- C17
\* C17: an account that is gone as a successful removeAccount leaves it (no
\* secure-store entry, not listed, not in the text under "users") gets into
\* the list or the text only by the commit of an addAccount for it, or into
\* the list by the load; the commit of a refresh() that started before the
\* removal never brings the removed account back.
C17_NoResurrection ==
    [][\A e \in SecureKeys :
          \/ secureStore[e] # NoEntry \/ Holds(accounts, e) \/ Holds(dataStore.json, e)
          \/ ~Holds(accounts', e) /\ ~Holds(dataStore'.json, e)
          \/ \E t \in InFlight :
                /\ t.op = "add" /\ t.pc = "stored" /\ Returns(t)
                /\ EntryOf(t.account) = e
          \/ LoadCompletes /\ dataStore' = dataStore
      ]_vars

\* -------------------------------------------------------------------- C18
\* C18: in the first session, started with nothing stored, whenever no call
\* is in flight the secure store has an entry for (login, endpoint) exactly
\* when this.accounts lists an account with that login and endpoint, and
\* the secret stored for every listed account is that account's token.
C18_CredentialsMatchTheList ==
    (~prev.valid /\ tasks = EmptyBag) =>
        /\ \A e \in SecureKeys : secureStore[e] # NoEntry <=> Holds(accounts, e)
        /\ \A i \in 1..Len(accounts) :
              secureStore[EntryOf(accounts[i])] = accounts[i].token

\* -------------------------------------------------------------------- C19
\* C19: the commit of removeAccount(a), a being listed (an entry has a's id,
\* login and endpoint), drops that entry from this.accounts, and every other
\* listed account (another login or endpoint, or another id) stays,
\* unchanged and in the same order.
C19_RemoveDropsOnlyItsAccount ==
    [][\A t \in InFlight :
          LET other(x) == ~(x.id = t.account.id /\ EntryOf(x) = EntryOf(t.account))
          IN  (/\ t.op = "remove" /\ t.pc = "deleted" /\ Returns(t)
               /\ \E i \in 1..Len(accounts) : ~other(accounts[i])) =>
                  /\ SelectSeq(accounts', other) = SelectSeq(accounts, other)
                  /\ \A i \in 1..Len(accounts') : other(accounts'[i])
      ]_vars

\* -------------------------------------------------------------------- C20
\* C20: the commit of addAccount(a) makes this.accounts one entry longer:
\* the entries that were listed when the commit ran (not when the call was
\* made) stay as they were and in order, and the new last entry has a's
\* login, endpoint and token whatever the fetch did; so an addAccount that
\* commits while another is in flight leaves room for the other's entry.
C20_AddAppendsOne ==
    [][\A t \in InFlight :
          (t.op = "add" /\ t.pc = "stored" /\ Moves(t)) =>
              /\ Returns(t)
              /\ Len(accounts') = Len(accounts) + 1
              /\ SubSeq(accounts', 1, Len(accounts)) = accounts
              /\ accounts'[Len(accounts')].login = t.account.login
              /\ accounts'[Len(accounts')].endpoint = t.account.endpoint
              /\ accounts'[Len(accounts')].token = t.account.token
      ]_vars

\* Two addAccount calls, the only calls made, run side by side: one has
\* just committed its account, with a token and its fetch having failed,
\* while the other, for another login, is past the secure store and about
\* to append behind it.
C20_Witness ==
    /\ issued = 2
    /\ Len(accounts) = 1
    /\ accounts[1].token = "t" /\ accounts[1].id = 0
    /\ emitted = emitUpdate
    /\ \E t \in InFlight :
          t.op = "add" /\ t.pc = "stored" /\ t.account.login # accounts[1].login


====
